---- MODULE Spec2Model ----
(***************************************************************************)
(* A model of the semantic-action layer of the Hy lexer                    *)
(* (src/hy/lex/grammar.py) and of the HySet model (src/hy/models/set.py).  *)
(*                                                                         *)
(* Text is modelled as a sequence of one-character strings, so that        *)
(* slicing, startswith/endswith, upper() and replace() are computed        *)
(* character by character as Python computes them.                         *)
(***************************************************************************)
EXTENDS Integers, Sequences, FiniteSets, TLC

VARIABLES
    token, node,            \* emit_symbol: its argument contents[0], its return value
    contents, hydict,       \* emit_dict: its argument, its return value
    items, hyset,           \* HySet.__init__: its argument, the stored list
    data, linecounts,       \* HyGrammarBase: self.input.data, self.__linecounts
    pos, curpos,            \* HyGrammarBase: self.input.position, self.curpos
    frames, failing,        \* the engine's rule applications in progress; an exception in flight
    ret, child, inner,      \* the last emit's outcome; a node handed to the enclosing rule; its span at that emit
    decoded,                \* what the last decode_pos call got and returned
    parsers, lists, alone   \* several HyGrammarBase instances, the list objects they hold, each run alone

vars == <<token, node, contents, hydict, items, hyset, data, linecounts, pos,
          curpos, frames, failing, ret, child, inner, decoded, parsers, lists, alone>>

(***************************************************************************)
(* Bounds of the model.                                                    *)
(***************************************************************************)
MaxTokenLen == 3
MaxDictLen == 5
MaxSetLen == 4
MaxItem == 3
MaxDepth == 3
MaxNesting == 2
MaxDataLen == 5

(***************************************************************************)
(* Sequences.                                                              *)
(***************************************************************************)
SeqsUpTo(S, n) == UNION {[1..k -> S] : k \in 0..n}

Last(s) == s[Len(s)]

Front(s) == SubSeq(s, 1, Len(s) - 1)

Range(s) == {s[i] : i \in DOMAIN s}

(***************************************************************************)
(* Characters of identifier tokens.                                        *)
(***************************************************************************)
Digits == <<"0", "1", "2", "3", "4", "5", "6", "7", "8", "9">>

LowerCase == <<"a", "b", "e", "f", "l", "n", "o", "r", "s", "t", "u">>

UpperCase == <<"A", "B", "E", "F", "L", "N", "O", "R", "S", "T", "U">>

IsDigit(c) == c \in Range(Digits)

DigitValue(c) == (CHOOSE i \in DOMAIN Digits : Digits[i] = c) - 1

\* str.upper() on one character: lower-case letters change, every other
\* character is kept.
UpperChar(c) ==
    IF c \in Range(LowerCase)
    THEN UpperCase[CHOOSE i \in DOMAIN LowerCase : LowerCase[i] = c]
    ELSE c

upper(s) == [i \in DOMAIN s |-> UpperChar(s[i])]

\* str.replace(old, new) for one-character old and new.
replace(s, old, new) == [i \in DOMAIN s |-> IF s[i] = old THEN new ELSE s[i]]

startswith(s, c) == Len(s) >= 1 /\ s[1] = c

endswith(s, c) == Len(s) >= 1 /\ s[Len(s)] = c

\* Python's obj[1:-1]: empty when obj has fewer than three characters.
slice_1_m1(s) == IF Len(s) >= 2 THEN SubSeq(s, 2, Len(s) - 1) ELSE <<>>

(***************************************************************************)
(* The model constructors emit_symbol calls.  int(str) on a token: an      *)
(* optional sign, then one or more decimal digits, nothing else.           *)
(***************************************************************************)
RECURSIVE DigitsValue(_)
DigitsValue(s) ==
    IF s = <<>> THEN 0 ELSE 10 * DigitsValue(Front(s)) + DigitValue(Last(s))

Unsigned(s) == IF startswith(s, "-") \/ startswith(s, "+") THEN Tail(s) ELSE s

int_accepts(s) ==
    /\ Unsigned(s) # <<>>
    /\ \A i \in DOMAIN Unsigned(s) : IsDigit(Unsigned(s)[i])

int(s) ==
    IF startswith(s, "-") THEN 0 - DigitsValue(Unsigned(s)) ELSE DigitsValue(Unsigned(s))

HyInteger(number) == [type |-> "HyInteger", value |-> int(number)]

HySymbol(string) == [type |-> "HySymbol", value |-> string]

(***************************************************************************)
(* emit_symbol                                                             *)
(***************************************************************************)
true == <<"t", "r", "u", "e">>

false == <<"f", "a", "l", "s", "e">>

null == <<"n", "u", "l", "l">>

table == (true :> <<"T", "r", "u", "e">>) @@ (false :> <<"F", "a", "l", "s", "e">>)
         @@ (null :> <<"N", "o", "n", "e">>)

\* if obj.startswith("*") and obj.endswith("*") and obj != "*": obj = obj[1:-1].upper()
earmuffs_noguard(obj) ==
    IF startswith(obj, "*") /\ endswith(obj, "*")
    THEN upper(slice_1_m1(obj))
    ELSE obj

earmuffs(obj) ==
    IF startswith(obj, "*") /\ endswith(obj, "*") /\ obj # <<"*">>
    THEN upper(slice_1_m1(obj))
    ELSE obj

\* if "-" in obj and obj != "-": obj = obj.replace("-", "_")
dashes(obj) ==
    IF "-" \in Range(obj) /\ obj # <<"-">>
    THEN replace(obj, "-", "_")
    ELSE obj

emit_symbol_no_integer(cs) ==
    LET obj == cs[1] IN
    IF obj \in DOMAIN table THEN HySymbol(table[obj])
    ELSE HySymbol(dashes(earmuffs(obj)))

emit_symbol(cs) ==
    LET obj == cs[1] IN
    IF int_accepts(obj) THEN HyInteger(obj)
    ELSE IF obj \in DOMAIN table THEN HySymbol(table[obj])
    ELSE HySymbol(dashes(earmuffs(obj)))

(***************************************************************************)
(* emit_dict                                                               *)
(***************************************************************************)
\* zip over two cursors one element apart: (c[0], c[1]), (c[1], c[2]), ...
zip_two_cursors(cs) ==
    [i \in 1..(IF Len(cs) = 0 THEN 0 ELSE Len(cs) - 1) |-> <<cs[i], cs[i + 1]>>]

\* zip(it, it) over one iterator: the pairs (c[0], c[1]), (c[2], c[3]), ...;
\* zip stops at the first cursor that is exhausted, so a trailing element
\* with no partner is consumed and dropped.
zip_it_it(cs) == [i \in 1..(Len(cs) \div 2) |-> <<cs[2 * i - 1], cs[2 * i]>>]

\* dict(pairs): a key given twice keeps the value of its last pair.
dict(pairs) ==
    [k \in {pairs[i][1] : i \in DOMAIN pairs} |->
        pairs[CHOOSE i \in DOMAIN pairs :
                /\ pairs[i][1] = k
                /\ \A j \in DOMAIN pairs : pairs[j][1] = k => j <= i][2]]

HyDict(d) == [type |-> "HyDict", value |-> d]

emit_dict(cs) == HyDict(dict(zip_it_it(cs)))

(***************************************************************************)
(* HySet.__init__                                                          *)
(***************************************************************************)
RECURSIVE insert(_, _)
insert(s, v) ==
    IF s = <<>> THEN <<v>>
    ELSE IF Last(s) <= v THEN Append(s, v)
    ELSE Append(insert(Front(s), v), Last(s))

RECURSIVE insertion_sort(_)
insertion_sort(xs) ==
    IF xs = <<>> THEN <<>> ELSE insert(insertion_sort(Front(xs)), Last(xs))

unsorted(xs) == xs

\* sorted(items): ascending and stable.
sorted(xs) == insertion_sort(xs)

\* Python's "a and b or c".
and_or(a, b, c) == IF a /\ b # <<>> THEN b ELSE c

\* lambda r, v: v in r and r or r+[v]
keep_new(r, v) == and_or(v \in Range(r), r, Append(r, v))

RECURSIVE reduce(_, _)
reduce(xs, initial) ==
    IF xs = <<>> THEN initial ELSE keep_new(reduce(Front(xs), initial), Last(xs))

HySet_init(its) == reduce(sorted(its), <<>>)

(***************************************************************************)
(* HyGrammarBase.__init__, decode_pos, boundaries                          *)
(***************************************************************************)
\* str.split('\n'): the pieces between newlines; always at least one piece.
RECURSIVE split(_)
split(s) ==
    IF s = <<>> THEN << <<>> >>
    ELSE LET head == split(Front(s)) IN
         IF Last(s) = "\n" THEN Append(head, <<>>)
         ELSE [head EXCEPT ![Len(head)] = Append(@, Last(s))]

\* counter += len(line) + 1; linecounts.append(counter)
RECURSIVE count_lines(_)
count_lines(lines) ==
    IF lines = <<>> THEN <<>>
    ELSE LET before == count_lines(Front(lines)) IN
         Append(before, (IF before = <<>> THEN 0 ELSE Last(before)) + Len(Last(lines)) + 1)

init_linecounts(text) == count_lines(split(text))

\* self.curpos = []: the list object that instance p gets.  Each evaluation
\* of [] in __init__ makes a new list, named here after the instance; a list
\* made once in the class body would be the same object for every instance.
class_level_curpos(p) == 1

new_curpos(p) == p

\* The loop of decode_pos: it breaks at the first count that pos is below;
\* with no break lineNo is left at the last index and prevcount at the last count.
decode_pos_le(lc, p) ==
    LET hits == {i \in DOMAIN lc : p <= lc[i]}
        stop == IF hits = {} THEN Len(lc) + 1
                ELSE CHOOSE i \in hits : \A j \in hits : i <= j
        lineNo == IF hits = {} THEN Len(lc) - 1 ELSE stop - 1
        prevcount == IF stop = 1 THEN 0 ELSE lc[stop - 1]
    IN <<lineNo + 1, p - prevcount + 1>>

decode_pos(lc, p) ==
    LET hits == {i \in DOMAIN lc : p < lc[i]}
        stop == IF hits = {} THEN Len(lc) + 1
                ELSE CHOOSE i \in hits : \A j \in hits : i <= j
        lineNo == IF hits = {} THEN Len(lc) - 1 ELSE stop - 1
        prevcount == IF stop = 1 THEN 0 ELSE lc[stop - 1]
    IN <<lineNo + 1, p - prevcount + 1>>

\* boundaries: end = self.pos - 1; (decode_pos(self.curpos[-1]), decode_pos(end))
boundaries_end_at_pos(lc, stack, p) ==
    <<decode_pos(lc, Last(stack)), decode_pos(lc, p)>>

boundaries_from_pos(lc, stack, p) ==
    <<decode_pos(lc, p), decode_pos(lc, p - 1)>>

boundaries(lc, stack, p) ==
    <<decode_pos(lc, Last(stack)), decode_pos(lc, p - 1)>>

(***************************************************************************)
(* HyGrammarBase._apply: the push before the rule runs, the pop in the     *)
(* finally clause after it returned or raised.                             *)
(***************************************************************************)
apply_enter(stack, p) == Append(stack, p)

apply_pop_on_return_only(stack, raised) == IF raised THEN stack ELSE Front(stack)

apply_finally(stack, raised) == Front(stack)

(***************************************************************************)
(* HyGrammarBase.dispatch and emit                                         *)
(***************************************************************************)
HyList(cs) == [type |-> "HyList", value |-> cs]

HyExpression(cs) == [type |-> "HyExpression", value |-> cs]

list(cs) == [type |-> "list", value |-> cs]

\* lambda contents: HyString(*contents), for a single captured fragment
HyString(cs) == [type |-> "HyString", value |-> cs[1]]

dispatch == [dict |-> "emit_dict", identifier |-> "emit_symbol", list |-> "HyList",
             parens |-> "HyExpression", root |-> "list", string |-> "HyString"]

\* fun(list(contents)) for fun = self.dispatch[kind]
construct(kind, cs) ==
    CASE dispatch[kind] = "emit_dict" -> emit_dict(cs)
      [] dispatch[kind] = "emit_symbol" -> emit_symbol(cs)
      [] dispatch[kind] = "HyList" -> HyList(cs)
      [] dispatch[kind] = "HyExpression" -> HyExpression(cs)
      [] dispatch[kind] = "list" -> list(cs)
      [] dispatch[kind] = "HyString" -> HyString(cs)

\* Whether ret.start_line = ... succeeds: the model classes take attributes,
\* a built-in list raises AttributeError.
takes_attributes(obj) == obj.type # "list"

NoSpan == <<>>

NoObj == [type |-> "NoneType"]

NoRet == [raised |-> "nothing", kind |-> "", contents |-> <<>>, obj |-> NoObj,
          span |-> NoSpan]

\* raise LexException(self.input, self.input.position,
\*                    "Unimplemented atom type %s" % kind)
unimplemented_atom_before_pos(text, p, kind, cs) ==
    [raised |-> "LexException", input |-> text, position |-> p - 1,
     message |-> <<"Unimplemented atom type ", kind>>,
     kind |-> kind, contents |-> cs, obj |-> NoObj, span |-> NoSpan]

unimplemented_atom(text, p, kind, cs) ==
    [raised |-> "LexException", input |-> text, position |-> p,
     message |-> <<"Unimplemented atom type ", kind>>,
     kind |-> kind, contents |-> cs, obj |-> NoObj, span |-> NoSpan]

\* emit: the value returned (raised = "no") or the exception raised.  A stamped
\* span is <<start_line, start_column, end_line, end_column>>.
emit(text, lc, stack, p, kind, cs) ==
    IF kind \notin DOMAIN dispatch
    THEN unimplemented_atom(text, p, kind, cs)
    ELSE LET obj == construct(kind, cs) IN
         IF stack = <<>>
         THEN [raised |-> "IndexError", kind |-> kind, contents |-> cs,
               obj |-> NoObj, span |-> NoSpan]
         ELSE LET bounds == boundaries(lc, stack, p) IN
              [raised |-> "no", kind |-> kind, contents |-> cs, obj |-> obj,
               span |-> IF takes_attributes(obj)
                        THEN <<bounds[1][1], bounds[1][2], bounds[2][1], bounds[2][2]>>
                        ELSE NoSpan]

(***************************************************************************)
(* The state of each part when a specification does not exercise it.       *)
(***************************************************************************)
NoChild == [span |-> NoSpan, ret |-> 0, level |-> 0]

NoDecoded == [pos |-> 0, line |-> 0, column |-> 0, done |-> FALSE]

manglerVars == <<token, node>>

dictVars == <<contents, hydict>>

setVars == <<items, hyset>>

parserVars == <<data, linecounts, pos, curpos, frames, failing, ret, child, inner>>

decodeVars == <<decoded>>

instanceVars == <<parsers, lists, alone>>

IdleMangler == token = <<>> /\ node = NoObj

IdleDict == contents = <<>> /\ hydict = NoObj

NoSet == [built |-> FALSE, list |-> <<>>]

IdleSet == items = <<>> /\ hyset = NoSet

IdleParser ==
    /\ data = <<>> /\ linecounts = <<>> /\ pos = 0 /\ curpos = <<>>
    /\ frames = <<>> /\ failing = "no" /\ ret = NoRet /\ child = NoChild
    /\ inner = NoSpan

IdleDecode == decoded = NoDecoded

IdleInstances == parsers = <<>> /\ lists = <<>> /\ alone = <<>>

(***************************************************************************)
(* emit_symbol applied to one identifier token.                            *)
(***************************************************************************)
TokenChars == {"*", "-", "+", "0", "1", "a"}

NamedTokens ==
    { true, false, null,
      <<"T", "r", "u", "e">>, <<"t", "r", "u", "e", "e">>,
      <<"*", "t", "r", "u", "e", "*">>,
      <<"*", "f", "o", "o", "*">>, <<"f", "o", "o", "-", "b", "a", "r">>,
      <<"*", "f", "o", "o", "-", "b", "a", "r", "*">>,
      <<"*", "F", "O", "O", "-", "B", "A", "R", "*">>,
      <<"-", "1", "2">>, <<"1", "2", "a">>, <<"1", "-", "2">> }

Tokens == SeqsUpTo(TokenChars, MaxTokenLen) \cup NamedTokens

InitMangler ==
    /\ token \in Tokens /\ node = NoObj
    /\ IdleDict /\ IdleSet /\ IdleParser /\ IdleDecode /\ IdleInstances

Mangle ==
    /\ node = NoObj
    /\ node' = emit_symbol(<<token>>)
    /\ UNCHANGED <<token, dictVars, setVars, parserVars, decodeVars, instanceVars>>

NextMangler == Mangle

SpecMangler == InitMangler /\ [][NextMangler]_vars

(***************************************************************************)
(* emit_dict applied to one flat contents sequence.                        *)
(***************************************************************************)
Atoms == {"a", "b", "c"}

InitDict ==
    /\ contents \in SeqsUpTo(Atoms, MaxDictLen) /\ hydict = NoObj
    /\ IdleMangler /\ IdleSet /\ IdleParser /\ IdleDecode /\ IdleInstances

EmitDict ==
    /\ hydict = NoObj
    /\ hydict' = emit_dict(contents)
    /\ UNCHANGED <<contents, manglerVars, setVars, parserVars, decodeVars, instanceVars>>

NextDict == EmitDict

SpecDict == InitDict /\ [][NextDict]_vars

(***************************************************************************)
(* HySet built from one sequence of integers.                              *)
(***************************************************************************)
InitSet ==
    /\ items \in SeqsUpTo(1..MaxItem, MaxSetLen) /\ hyset = NoSet
    /\ IdleMangler /\ IdleDict /\ IdleParser /\ IdleDecode /\ IdleInstances

MakeSet ==
    /\ hyset = NoSet
    /\ hyset' = [built |-> TRUE, list |-> HySet_init(items)]
    /\ UNCHANGED <<items, manglerVars, dictVars, parserVars, decodeVars, instanceVars>>

NextSet == MakeSet

SpecSet == InitSet /\ [][NextSet]_vars

(***************************************************************************)
(* decode_pos on a parser built over one input text.                       *)
(***************************************************************************)
DataChars == {"a", "\n"}

InitDecode ==
    /\ data \in SeqsUpTo(DataChars, MaxDataLen)
    /\ linecounts = init_linecounts(data)
    /\ pos = 0 /\ curpos = <<>> /\ frames = <<>> /\ failing = "no"
    /\ ret = NoRet /\ child = NoChild /\ inner = NoSpan
    /\ decoded = NoDecoded
    /\ IdleMangler /\ IdleDict /\ IdleSet /\ IdleInstances

Decode ==
    /\ \E o \in 0..Len(data) :
         LET lc == decode_pos(linecounts, o) IN
         decoded' = [pos |-> o, line |-> lc[1], column |-> lc[2], done |-> TRUE]
    /\ UNCHANGED <<manglerVars, dictVars, setVars, parserVars, instanceVars>>

NextDecode == Decode

SpecDecode == InitDecode /\ [][NextDecode]_vars

(***************************************************************************)
(* One parse: the grammar engine applies rules through _apply, consumes    *)
(* input, backtracks, fails, and calls emit from the rules' actions.       *)
(* frames lists the rule applications in progress, outermost first: the    *)
(* offset each was entered at and the position stack it found.  ret is the *)
(* outcome of an emit until the engine's next step takes it.  child is a   *)
(* node that a completed rule returned to the application at depth         *)
(* child.level and that is still part of that application's match.         *)
(***************************************************************************)
Kinds == DOMAIN dispatch \cup {"set"}

ParserInputs ==
    { <<>>, <<"a", "a">>, <<"a", "\n", "a">>, <<"\n", "a", "\n">>, <<"\n", "\n", "a">> }

EmitContents == { << <<"1">> >>, << <<"a", "-", "b">>, <<"1">> >> }

Depth == Len(frames)

InitParser ==
    /\ data \in ParserInputs
    /\ linecounts = init_linecounts(data)
    /\ pos = 0 /\ curpos = <<>> /\ frames = <<>> /\ failing = "no"
    /\ ret = NoRet /\ child = NoChild /\ inner = NoSpan
    /\ IdleMangler /\ IdleDict /\ IdleSet /\ IdleDecode /\ IdleInstances

otherVars == <<manglerVars, dictVars, setVars, decodeVars, instanceVars>>

\* The engine's next step takes the value emit returned.
Taken == ret' = NoRet /\ inner' = NoSpan

\* _apply, up to the call of the rule: self.curpos.append(self.pos)
ApplyEnter ==
    /\ failing = "no" /\ Depth < MaxDepth
    /\ curpos' = apply_enter(curpos, pos)
    /\ frames' = Append(frames, [entry |-> pos, saved |-> curpos])
    /\ Taken
    /\ UNCHANGED <<data, linecounts, pos, failing, child, otherVars>>

\* The rule in progress consumes one character of input.
Consume ==
    /\ failing = "no" /\ Depth > 0 /\ pos < Len(data)
    /\ pos' = pos + 1
    /\ Taken
    /\ UNCHANGED <<data, linecounts, curpos, frames, failing, child, otherVars>>

\* An alternative inside the rule in progress fails and the rule resumes
\* from a choice point q it took earlier; what it matched after q is dropped.
Backtrack ==
    /\ failing = "no" /\ Depth > 0
    /\ \E q \in Last(frames).entry..pos :
         /\ pos' = q
         /\ child' = IF child.level = Depth /\ child.ret > q THEN NoChild ELSE child
    /\ Taken
    /\ UNCHANGED <<data, linecounts, curpos, frames, failing, otherVars>>

\* emit called from the action of the rule in progress.  A LexException is a
\* parsley.ParseError.
Emit ==
    /\ failing = "no" /\ Depth > 0
    /\ \E kind \in Kinds, cs \in EmitContents :
         /\ kind = "string" => Len(cs) = 1
         /\ LET r == emit(data, linecounts, curpos, pos, kind, cs) IN
            /\ ret' = r
            /\ failing' = CASE r.raised = "no" -> "no"
                            [] r.raised = "LexException" -> "ParseError"
                            [] OTHER -> r.raised
            /\ inner' = IF r.raised = "no" /\ child.level = Depth THEN child.span ELSE NoSpan
    /\ UNCHANGED <<data, linecounts, pos, curpos, frames, child, otherVars>>

\* The rule in progress fails with a ParseError that it does not handle.
Fail ==
    /\ failing = "no" /\ Depth > 0
    /\ failing' = "ParseError"
    /\ Taken
    /\ UNCHANGED <<data, linecounts, pos, curpos, frames, child, otherVars>>

\* _apply after the rule returned: the finally clause, then return ret.  A
\* rule that ends with its emit returns the emitted node, and the enclosing
\* rule may keep it as part of its match.
ApplyReturn ==
    /\ failing = "no" /\ Depth > 0
    /\ curpos' = apply_finally(curpos, FALSE)
    /\ frames' = Front(frames)
    /\ \/ /\ Depth > 1 /\ ret.raised = "no" /\ ret.span # NoSpan
          /\ child' = [span |-> ret.span, ret |-> pos, level |-> Depth - 1]
       \/ child' = IF child.level >= Depth THEN NoChild ELSE child
    /\ Taken
    /\ UNCHANGED <<data, linecounts, pos, failing, otherVars>>

\* _apply after the rule raised: the finally clause, then the exception goes
\* on to the enclosing rule, which does not handle it.
ApplyRaise ==
    /\ failing # "no" /\ Depth > 0
    /\ curpos' = apply_finally(curpos, TRUE)
    /\ frames' = Front(frames)
    /\ child' = IF child.level >= Depth - 1 THEN NoChild ELSE child
    /\ Taken
    /\ UNCHANGED <<data, linecounts, pos, failing, otherVars>>

\* _apply after the rule raised a ParseError: the finally clause, then the
\* enclosing rule handles the error and resumes from a choice point q that it
\* took before the call.
ApplyRaiseHandled ==
    /\ failing = "ParseError" /\ Depth > 1
    /\ curpos' = apply_finally(curpos, TRUE)
    /\ frames' = Front(frames)
    /\ failing' = "no"
    /\ \E q \in frames[Depth - 1].entry..Last(frames).entry :
         /\ pos' = q
         /\ child' = IF child.level >= Depth \/ (child.level = Depth - 1 /\ child.ret > q)
                     THEN NoChild ELSE child
    /\ Taken
    /\ UNCHANGED <<data, linecounts, otherVars>>

NextParser ==
    \/ ApplyEnter \/ Consume \/ Backtrack \/ Emit \/ Fail
    \/ ApplyReturn \/ ApplyRaise \/ ApplyRaiseHandled

SpecParser == InitParser /\ [][NextParser]_vars

(***************************************************************************)
(* Two parser instances, each built over its own input, whose rule         *)
(* applications and emits interleave.  lists maps each list object to its  *)
(* contents; parsers[p].curpos names the list object instance p holds.     *)
(* alone[p] is instance p run by itself through the same calls.            *)
(***************************************************************************)
Instances == {1, 2}

InstanceInputs == { <<"a", "\n">>, <<"\n", "a", "a">> }

InitInstances ==
    /\ \E inputs \in [Instances -> InstanceInputs] :
         parsers = [p \in Instances |->
                      [data |-> inputs[p], linecounts |-> init_linecounts(inputs[p]),
                       position |-> 0, curpos |-> new_curpos(p), active |-> 0,
                       span |-> NoSpan]]
    /\ lists = [id \in Instances |-> <<>>]
    /\ alone = [p \in Instances |-> [position |-> 0, curpos |-> <<>>, span |-> NoSpan]]
    /\ IdleMangler /\ IdleDict /\ IdleSet /\ IdleParser /\ IdleDecode

restVars == <<manglerVars, dictVars, setVars, parserVars, decodeVars>>

InstanceApplyEnter(p) ==
    LET self == parsers[p] IN
    /\ self.active < MaxNesting
    /\ lists' = [lists EXCEPT ![self.curpos] = apply_enter(@, self.position)]
    /\ parsers' = [parsers EXCEPT ![p].active = @ + 1, ![p].span = NoSpan]
    /\ alone' = [alone EXCEPT ![p].curpos = apply_enter(@, alone[p].position),
                              ![p].span = NoSpan]
    /\ UNCHANGED restVars

InstanceConsume(p) ==
    LET self == parsers[p] IN
    /\ self.active > 0 /\ self.position < Len(self.data)
    /\ parsers' = [parsers EXCEPT ![p].position = @ + 1, ![p].span = NoSpan]
    /\ alone' = [alone EXCEPT ![p].position = @ + 1, ![p].span = NoSpan]
    /\ UNCHANGED <<lists, restVars>>

InstanceEmit(p) ==
    LET self == parsers[p] IN
    /\ self.active > 0
    /\ parsers' = [parsers EXCEPT ![p].span =
                     emit(self.data, self.linecounts, lists[self.curpos],
                          self.position, "list", <<>>).span]
    /\ alone' = [alone EXCEPT ![p].span =
                   emit(self.data, self.linecounts, alone[p].curpos,
                        alone[p].position, "list", <<>>).span]
    /\ UNCHANGED <<lists, restVars>>

InstanceApplyExit(p) ==
    LET self == parsers[p] IN
    /\ self.active > 0
    /\ \E raised \in BOOLEAN :
         /\ lists' = [lists EXCEPT ![self.curpos] = apply_finally(@, raised)]
         /\ alone' = [alone EXCEPT ![p].curpos = apply_finally(@, raised),
                                   ![p].span = NoSpan]
    /\ parsers' = [parsers EXCEPT ![p].active = @ - 1, ![p].span = NoSpan]
    /\ UNCHANGED restVars

NextInstances ==
    \E p \in Instances :
        \/ InstanceApplyEnter(p) \/ InstanceConsume(p)
        \/ InstanceEmit(p) \/ InstanceApplyExit(p)

SpecInstances == InitInstances /\ [][NextInstances]_vars

(***************************************************************************)
(* Claims about emit_symbol (SpecMangler).                                 *)
(***************************************************************************)
RECURSIVE Pow10(_)
Pow10(n) == IF n = 0 THEN 1 ELSE 10 * Pow10(n - 1)

Signed(t) == Len(t) >= 1 /\ t[1] \in {"+", "-"}

\* The whole of t is an optional sign followed by one or more digits.
WholeIntegerLiteral(t) ==
    LET first == IF Signed(t) THEN 2 ELSE 1 IN
    /\ Len(t) >= first
    /\ \A i \in first..Len(t) : t[i] \in {"0", "1", "2", "3", "4", "5", "6", "7", "8", "9"}

RECURSIVE PlaceSum(_, _)
PlaceSum(t, i) ==
    IF i > Len(t) THEN 0
    ELSE (IF t[i] \in {"+", "-"} THEN 0 ELSE DigitValue(t[i]) * Pow10(Len(t) - i))
         + PlaceSum(t, i + 1)

LiteralValue(t) == IF Len(t) >= 1 /\ t[1] = "-" THEN 0 - PlaceSum(t, 1) ELSE PlaceSum(t, 1)

\* C1: emit_symbol([t]) is an Integer node holding the value of t exactly when
\* the whole of t is an integer literal (optional sign, then digits), and a
\* Symbol node for every other token.
C1_IntegerExactlyForWholeLiterals ==
    node # NoObj =>
        IF WholeIntegerLiteral(token)
        THEN node = [type |-> "HyInteger", value |-> LiteralValue(token)]
        ELSE node.type = "HySymbol"

C1_Witness ==
    /\ token = <<"-", "1", "2">>
    /\ node = [type |-> "HyInteger", value |-> 0 - 12]

\* The text of the Symbol the claim fixes for a non-integer token.
MangledText(t) ==
    LET reserved == {true, false, null}
        unwrapped == IF Len(t) >= 2 /\ t[1] = "*" /\ t[Len(t)] = "*"
                     THEN [i \in 1..(Len(t) - 2) |-> UpperChar(t[i + 1])]
                     ELSE t
        mangled == IF unwrapped # <<"-">> /\ \E i \in DOMAIN unwrapped : unwrapped[i] = "-"
                   THEN [i \in DOMAIN unwrapped |->
                            IF unwrapped[i] = "-" THEN "_" ELSE unwrapped[i]]
                   ELSE unwrapped
    IN CASE t = true -> <<"T", "r", "u", "e">>
         [] t = false -> <<"F", "a", "l", "s", "e">>
         [] t = null -> <<"N", "o", "n", "e">>
         [] OTHER -> mangled

\* C2: for a non-integer token emit_symbol returns Symbol(f(t)): the reserved
\* words map to True, False, None; otherwise earmuffs are unwrapped and
\* upper-cased (never for the single "*"), and then every dash becomes an
\* underscore (never for the single "-").
C2_MangleOrder ==
    (node # NoObj /\ ~WholeIntegerLiteral(token)) =>
        /\ node = [type |-> "HySymbol", value |-> MangledText(token)]
        /\ (token = <<"*">> => node.value = <<"*">>)
        /\ (token = <<"-">> => node.value = <<"-">>)

C2_Witness ==
    /\ token = <<"*", "f", "o", "o", "-", "b", "a", "r", "*">>
    /\ node = [type |-> "HySymbol", value |-> <<"F", "O", "O", "_", "B", "A", "R">>]

(***************************************************************************)
(* Claim about emit_dict (SpecDict).                                       *)
(***************************************************************************)
DistinctKeys(c) ==
    \A i, j \in 1..(Len(c) \div 2) : i # j => c[2 * i - 1] # c[2 * j - 1]

\* C3: with pairwise distinct keys, emit_dict(c) is a mapping of exactly
\* floor(n/2) entries sending c[2i] to c[2i+1] (0-based); an odd trailing
\* element is dropped and nothing is raised.
C3_DictPairsAndTruncates ==
    (hydict # NoObj /\ DistinctKeys(contents)) =>
        /\ hydict.type = "HyDict"
        /\ Cardinality(DOMAIN hydict.value) = Len(contents) \div 2
        /\ \A i \in 1..(Len(contents) \div 2) :
              /\ contents[2 * i - 1] \in DOMAIN hydict.value
              /\ hydict.value[contents[2 * i - 1]] = contents[2 * i]

C3_Witness ==
    /\ contents = <<"a", "b", "c", "a", "b">>
    /\ hydict # NoObj
    /\ DOMAIN hydict.value = {"a", "c"}
    /\ hydict.value["a"] = "b" /\ hydict.value["c"] = "a"

(***************************************************************************)
(* Claim about HySet (SpecSet).                                            *)
(***************************************************************************)
StrictlyAscending(s) == \A i \in 1..(Len(s) - 1) : s[i] < s[i + 1]

RECURSIVE DropAdjacentDuplicates(_)
DropAdjacentDuplicates(s) ==
    IF Len(s) <= 1 THEN s
    ELSE LET rest == DropAdjacentDuplicates(Front(s)) IN
         IF Last(s) = Last(rest) THEN rest ELSE Append(rest, Last(s))

Reorderings(s) ==
    {[i \in DOMAIN s |-> s[f[i]]] : f \in Permutations(DOMAIN s)}

\* C9: HySet(items) holds a strictly ascending sequence with the same set of
\* elements as items; it equals the sorted items with adjacent duplicates
\* removed; it is empty for empty items, the same for every reordering of
\* items, and unchanged by building a set from it again.
C9_SortedAndDeduplicated ==
    hyset.built =>
        /\ StrictlyAscending(hyset.list)
        /\ Range(hyset.list) = Range(items)
        /\ hyset.list = DropAdjacentDuplicates(sorted(items))
        /\ (items = <<>> => hyset.list = <<>>)
        /\ \A other \in Reorderings(items) : HySet_init(other) = hyset.list
        /\ HySet_init(hyset.list) = hyset.list

C9_Witness ==
    /\ items = <<3, 1, 2, 2>>
    /\ hyset = [built |-> TRUE, list |-> <<1, 2, 3>>]

(***************************************************************************)
(* Claim about decode_pos (SpecDecode).                                    *)
(***************************************************************************)
\* The newline characters of data before offset o, as 1-based indices.
NewlinesBefore(o) == {i \in 1..o : data[i] = "\n"}

\* The cumulative count of line k: the lengths of lines 1..k plus k, which
\* is the index of the k-th newline, or one past the text for the last line.
CumulativeCount(k) ==
    LET nl == {i \in DOMAIN data : data[i] = "\n"} IN
    IF k > Cardinality(nl) THEN Len(data) + 1
    ELSE CHOOSE i \in nl : Cardinality({j \in nl : j <= i}) = k

\* C8: decode(o) = (L, C) with L the first line whose cumulative count
\* exceeds o and C = o - (cumulative count of line L-1, or 0) + 1; so
\* decode(0) = (1, 1), an offset equal to a cumulative count is column 1 of
\* the next line, and the previous count plus C - 1 gives o back.
C8_DecodeByCumulativeCounts ==
    decoded.done =>
        LET o == decoded.pos
            L == decoded.line
            C == decoded.column
            prev == IF L = 1 THEN 0 ELSE CumulativeCount(L - 1)
        IN /\ L = Cardinality(NewlinesBefore(o)) + 1
           /\ CumulativeCount(L) > o
           /\ \A k \in 1..(L - 1) : CumulativeCount(k) <= o
           /\ C = o - prev + 1
           /\ prev + (C - 1) = o
           /\ (o = 0 => L = 1 /\ C = 1)
           /\ (L > 1 /\ o = CumulativeCount(L - 1) => C = 1)

C8_Witness ==
    /\ data = <<"a", "\n", "a", "a", "\n">>
    /\ decoded = [pos |-> 2, line |-> 2, column |-> 1, done |-> TRUE]

(***************************************************************************)
(* Claims about one parse (SpecParser).                                    *)
(***************************************************************************)
\* C4: emit of a kind that the dispatch mapping lacks raises a LexException
\* that names the kind and carries the current offset; no constructor runs,
\* no node is returned, and the position stack is as it was before the emit.
C4_UnknownKindRaises ==
    [][(ret' # NoRet /\ ret'.kind \notin {"dict", "identifier", "list", "parens",
                                          "root", "string"}) =>
          /\ ret'.raised = "LexException"
          /\ ret'.input = data /\ ret'.position = pos
          /\ ret'.message = <<"Unimplemented atom type ", ret'.kind>>
          /\ ret'.obj = NoObj /\ ret'.span = NoSpan
          /\ failing' = "ParseError"
          /\ curpos' = curpos /\ pos' = pos]_vars

C4_Witness ==
    /\ ret.raised = "LexException" /\ ret.kind = "set"
    /\ ret.position = 2 /\ curpos = <<0, 1>>

\* C5: the position stack holds exactly the entry offsets of the rule
\* applications in progress, outermost first, and below each entry it is what
\* that application found on entry; so it is empty outside every application
\* and restored when an application returns or raises.
C5_StackMirrorsApplications ==
    /\ Len(curpos) = Len(frames)
    /\ \A i \in DOMAIN frames :
          /\ curpos[i] = frames[i].entry
          /\ frames[i].saved = SubSeq(curpos, 1, i - 1)
    /\ (frames = <<>> => curpos = <<>>)

\* A failure has left the outermost rule application, two characters in.
C5_Witness == failing = "ParseError" /\ frames = <<>> /\ curpos = <<>> /\ pos = 2

TypeOfKind(kind, obj) ==
    CASE kind = "dict" -> obj.type = "HyDict"
      [] kind = "identifier" -> obj.type \in {"HyInteger", "HySymbol"}
      [] kind = "list" -> obj.type = "HyList"
      [] kind = "parens" -> obj.type = "HyExpression"
      [] kind = "root" -> obj.type = "list"
      [] kind = "string" -> obj.type = "HyString"
      [] OTHER -> FALSE

\* C6: emit of a recognized kind inside a rule application returns the
\* constructor's value stamped with decode(top of the position stack) and
\* decode(current offset - 1); the plain list of kind "root" is returned
\* unstamped, and nothing is raised.
C6_EmitStampsSpan ==
    (ret # NoRet /\ ret.kind \in DOMAIN dispatch) =>
        /\ ret.raised = "no" /\ failing = "no"
        /\ TypeOfKind(ret.kind, ret.obj)
        /\ ret.obj = construct(ret.kind, ret.contents)
        /\ IF ret.kind = "root"
           THEN ret.span = NoSpan
           ELSE /\ Len(ret.span) = 4
                /\ <<ret.span[1], ret.span[2]>> = decode_pos(linecounts, curpos[Len(curpos)])
                /\ <<ret.span[3], ret.span[4]>> = decode_pos(linecounts, pos - 1)

C6_Witness ==
    /\ data = <<"a", "\n", "a">> /\ Len(frames) = 2
    /\ ret.raised = "no" /\ ret.kind = "parens" /\ ret.span = <<1, 2, 2, 1>>

\* (line, column) order.
NotBefore(a, b) == a[1] > b[1] \/ (a[1] = b[1] /\ a[2] >= b[2])

\* C7: the span of a node emitted by a child rule lies within the span of the
\* node emitted by the enclosing rule it was returned to.
C7_ChildSpanWithinParent ==
    (ret.raised = "no" /\ ret.span # NoSpan /\ inner # NoSpan) =>
        /\ NotBefore(<<inner[1], inner[2]>>, <<ret.span[1], ret.span[2]>>)
        /\ NotBefore(<<ret.span[3], ret.span[4]>>, <<inner[3], inner[4]>>)

C7_Witness ==
    /\ data = <<"\n", "a", "\n">>
    /\ ret.raised = "no" /\ ret.span = <<1, 1, 2, 2>> /\ inner = <<2, 1, 2, 1>>

(***************************************************************************)
(* Claim about concurrent parses (SpecInstances).                          *)
(***************************************************************************)
\* C10: two parser instances hold different position-stack objects and their
\* own line-offset index, and under every interleaving of their rule
\* applications and emits each one's position stack and stamped span are
\* what they are when it runs alone.
C10_InstancesShareNothing ==
    \A p \in DOMAIN parsers :
        /\ \A q \in DOMAIN parsers : q # p => parsers[q].curpos # parsers[p].curpos
        /\ parsers[p].linecounts = init_linecounts(parsers[p].data)
        /\ lists[parsers[p].curpos] = alone[p].curpos
        /\ parsers[p].position = alone[p].position
        /\ parsers[p].span = alone[p].span

C10_Witness ==
    /\ parsers[1].data = <<"a", "\n">> /\ parsers[2].data = <<"\n", "a", "a">>
    /\ lists[parsers[1].curpos] = <<0, 1>> /\ lists[parsers[2].curpos] = <<2>>
    /\ parsers[1].span = <<1, 2, 1, 2>> /\ parsers[2].active = 1
====
